---- MODULE Spec2Model ----
(***************************************************************************)
(* A model of the chiller dashboard core:                                  *)
(*   simulator.py  simulate_timeseries                                     *)
(*   ai_agent.py   credential resolution at import, _local_rule_based_     *)
(*                 answer, _call_gemini, _build_prompt, ai_answer          *)
(*                                                                         *)
(* Numbers.  Timestamps are integers counting minutes.  A real drawn by    *)
(* np.random.uniform(lo, hi) is drawn from Grid + 1 evenly spaced points   *)
(* of [lo, hi], both ends included, and is held as an integer scaled by    *)
(* Grid; the noise factors are held scaled by 100 * Grid, so the powers    *)
(* are held scaled by 100 * Grid * Grid.  Scaling by a positive number     *)
(* keeps signs and order.                                                  *)
(*                                                                         *)
(* Text.  A Python str that the code inspects (the query) is a sequence of *)
(* one-character strings.  A text the code assembles from lines is a       *)
(* sequence of line records; a fixed sentence is named by its kind.        *)
(***************************************************************************)
EXTENDS Integers, Sequences, FiniteSets, TLC

VARIABLES
    \* ---- simulator.py: one run of simulate_timeseries
    sim_pc,      \* "chillers": at the head of `for ch in chillers`;
                 \* "loop": at the head of `for _ in range(days * 96)`;
                 \* "append": at data.append, the row computed;
                 \* "done": returned
    chillers,    \* argument: the chiller ids, in iteration order
    days,        \* argument
    clock,       \* what datetime.now() returns when it is read next
    nowAt,       \* the value datetime.now() returned for each chiller begun
    ci,          \* how many chillers the outer loop has begun
    k,           \* how many iterations the inner loop has done
    t,           \* local t
    data,        \* local data: the key columns (time, chiller) of every row
    row,         \* the row the current iteration has computed and not yet
                 \* appended, with all its columns: <<the row>>, else <<>>
    \* ---- ai_agent.py: one application of a function to its arguments
    args,        \* the arguments: [query, df, chiller]
    answer,      \* <<what _local_rule_based_answer did>>, <<>> before the call
    prompt,      \* <<what _build_prompt did>>, <<>> before the call
    \* ---- ai_agent.py: the process, from the import of the module on
    pc,              \* "import": ai_agent is not imported yet; "ready": it is
    sdk_installed,   \* whether `import google.generativeai` succeeds
    secrets,         \* the secret store st.secrets
    env,             \* os.environ's GOOGLE_API_KEY
    GEMINI_AVAILABLE,
    API_KEY,
    configured,      \* the key genai.configure was given
    notices,         \* the st.info messages shown so far
    nCalls,          \* the ai_answer calls made
    remoteCalls,     \* the model.generate_content calls made
    call             \* <<what the last ai_answer call did>>, <<>> before the first

simVars == <<sim_pc, chillers, days, clock, nowAt, ci, k, t, data, row>>
fnVars == <<args, answer, prompt>>
agentVars == <<pc, sdk_installed, secrets, env, GEMINI_AVAILABLE, API_KEY, configured,
               notices, nCalls, remoteCalls, call>>
vars == <<simVars, fnVars, agentVars>>

\* Python's None
None == "<None>"

\* The parts of the program a specification does not run
SimIdle ==
    /\ sim_pc = "idle" /\ chillers = <<>> /\ days = 0 /\ clock = 0 /\ nowAt = <<>>
    /\ ci = 0 /\ k = 0 /\ t = 0 /\ data = <<>> /\ row = <<>>
FnIdle ==
    args = <<>> /\ answer = <<>> /\ prompt = <<>>
AgentIdle ==
    /\ pc = "idle" /\ sdk_installed = FALSE /\ secrets = <<>> /\ env = None
    /\ GEMINI_AVAILABLE = FALSE /\ API_KEY = None /\ configured = None
    /\ notices = <<>> /\ nCalls = 0 /\ remoteCalls = 0 /\ call = <<>>


(***************************************************************************)
(* Bounds of the model.                                                    *)
(***************************************************************************)
MaxDays == 1
Grid == 1

(***************************************************************************)
(* simulator.py                                                            *)
(***************************************************************************)
ChillerIds == {"CH-1", "CH-2"}

\* The chiller lists a run is given: a configured set of distinct ids.
ChillerLists == {<<>>, <<"CH-2">>, <<"CH-1", "CH-2">>}

StepsPerDay == 96
StepMinutes == 15
MinutesPerDay == 1440

\* timedelta(days=days), in minutes
timedelta_days(d) == d * MinutesPerDay

\* range(days * 96): the number of iterations of the inner loop
LoopCount_off(d) == d * StepsPerDay + 1
LoopCount(d) == IF d * StepsPerDay > 0 THEN d * StepsPerDay ELSE 0

\* np.random.uniform(lo, hi), scaled by Grid
Uniform(lo, hi) == {lo * Grid + i * (hi - lo) : i \in 0..Grid}

Max(a, b) == IF a > b THEN a ELSE b

\* base = 260 + (ambient - 30) * 10 + (it_load - 40) * 3 + (chw_in - 6) * 8,
\* scaled by Grid (the arguments are scaled by Grid)
Base_nooffset(ambient, it_load, chw_in) ==
    (ambient - 30 * Grid) * 10 + (it_load - 40 * Grid) * 3 + (chw_in - 6 * Grid) * 8
Base(ambient, it_load, chw_in) ==
    260 * Grid + (ambient - 30 * Grid) * 10 + (it_load - 40 * Grid) * 3
               + (chw_in - 6 * Grid) * 8

\* One in the powers' scale: 100 * Grid * Grid
PowerOne == 100 * Grid * Grid

\* The body of the inner loop up to data.append: the row it builds from the
\* five draws.  fp and fa are the noise factors scaled by 100 * Grid.
Sample(tm, ch, ambient, it_load, chw_in, fp, fa) ==
    LET base == Base(ambient, it_load, chw_in)
        predicted == base * fp
        actual == base * fa
    IN  [time |-> tm, chiller |-> ch,
         ambient |-> ambient, it_load |-> it_load, chw_in |-> chw_in,
         power_predicted |-> predicted, power_actual |-> actual,
         anomaly_score |-> [num |-> actual - predicted,
                            den |-> Max(predicted, PowerOne)]]

SimInit ==
    /\ sim_pc = "chillers"
    /\ chillers \in ChillerLists
    /\ days \in 0..MaxDays
    /\ clock = 0
    /\ nowAt = <<>>
    /\ ci = 0
    /\ k = 0
    /\ t = 0
    /\ data = <<>>
    /\ row = <<>>

\* for ch in chillers: t = datetime.now() - timedelta(days=days)
SimNextChiller ==
    /\ sim_pc = "chillers"
    /\ ci < Len(chillers)
    /\ ci' = ci + 1
    /\ nowAt' = Append(nowAt, clock)
    /\ t' = clock - timedelta_days(days)
    /\ \E tick \in {0, 1} : clock' = clock + tick
    /\ k' = 0
    /\ sim_pc' = "loop"
    /\ UNCHANGED <<chillers, days, data, row>>
    /\ UNCHANGED <<fnVars, agentVars>>

\* one iteration of for _ in range(days * 96), lines 11-18: the five draws and
\* the row computed from them
SimDraw ==
    /\ sim_pc = "loop"
    /\ k < LoopCount(days)
    /\ \E ambient \in Uniform(28, 45), it_load \in Uniform(40, 95),
          chw_in \in Uniform(5, 14), fp \in Uniform(92, 108), fa \in Uniform(85, 125) :
          row' = <<Sample(t, chillers[ci], ambient, it_load, chw_in, fp, fa)>>
    /\ sim_pc' = "append"
    /\ UNCHANGED <<chillers, days, clock, nowAt, ci, k, t, data>>
    /\ UNCHANGED <<fnVars, agentVars>>

\* the same iteration, lines 20-30: data.append(row); t += timedelta(minutes=15)
SimAppend ==
    /\ sim_pc = "append"
    /\ data' = Append(data, [time |-> row[1].time, chiller |-> row[1].chiller])
    /\ row' = <<>>
    /\ t' = t + StepMinutes
    /\ k' = k + 1
    /\ sim_pc' = "loop"
    /\ UNCHANGED <<chillers, days, clock, nowAt, ci>>
    /\ UNCHANGED <<fnVars, agentVars>>

\* the inner loop is exhausted: back to the outer loop
SimLoopEnd ==
    /\ sim_pc = "loop"
    /\ k >= LoopCount(days)
    /\ sim_pc' = "chillers"
    /\ UNCHANGED <<chillers, days, clock, nowAt, ci, k, t, data, row>>
    /\ UNCHANGED <<fnVars, agentVars>>

\* the outer loop is exhausted: return pd.DataFrame(data)
SimReturn ==
    /\ sim_pc = "chillers"
    /\ ci >= Len(chillers)
    /\ sim_pc' = "done"
    /\ UNCHANGED <<chillers, days, clock, nowAt, ci, k, t, data, row>>
    /\ UNCHANGED <<fnVars, agentVars>>

SimNext == SimNextChiller \/ SimDraw \/ SimAppend \/ SimLoopEnd \/ SimReturn

InitSim == SimInit /\ FnIdle /\ AgentIdle
SpecSim == InitSim /\ [][SimNext]_vars

----------------------------------------------------------------------------
\* The times of the rows of chiller c, in generation order
TimesOf(rows, c) ==
    LET mine == SelectSeq(rows, LAMBDA r : r.chiller = c)
    IN  [j \in 1..Len(mine) |-> mine[j].time]

\* C5: a finished run of simulate_timeseries has made Len(chillers) * days * 96
\* rows, and the times of each chiller's rows, in generation order, start at
\* the now read for that chiller minus days and go up by 15 minutes each.
C5_CountAndTimes ==
    sim_pc = "done" =>
        /\ Len(data) = Len(chillers) * days * StepsPerDay
        /\ \A i \in 1..Len(chillers) :
              LET ts == TimesOf(data, chillers[i])
              IN  /\ Len(ts) = days * StepsPerDay
                  /\ \A j \in 1..Len(ts) :
                        ts[j] = nowAt[i] - timedelta_days(days) + (j - 1) * StepMinutes
                  /\ \A j \in 1..(Len(ts) - 1) : ts[j] < ts[j + 1]

C5_Witness ==
    /\ sim_pc = "done"
    /\ Len(chillers) = 2
    /\ days = 1
    /\ nowAt[1] # nowAt[2]
    /\ Len(data) = 2 * StepsPerDay

\* C6: every row simulate_timeseries appends has power_predicted > 0 and
\* power_actual > 0.
C6_PowersPositive ==
    \A i \in 1..Len(row) : row[i].power_predicted > 0 /\ row[i].power_actual > 0

\* the row at the lowest corner of every range: base 232, factors 0.92 and 0.85
C6_Witness ==
    /\ row # <<>>
    /\ row[1].ambient = 28 * Grid /\ row[1].it_load = 40 * Grid
    /\ row[1].chw_in = 5 * Grid
    /\ row[1].power_predicted = 232 * Grid * 92 * Grid
    /\ row[1].power_actual = 232 * Grid * 85 * Grid
(***************************************************************************)
(* ai_agent.py: strings                                                    *)
(***************************************************************************)
UpperAlphabet == <<"A", "B", "C", "D", "E", "F", "G", "H", "I", "J", "K", "L", "M", "N", "O", "P", "Q", "R", "S", "T", "U", "V", "W", "X", "Y", "Z">>
LowerAlphabet == <<"a", "b", "c", "d", "e", "f", "g", "h", "i", "j", "k", "l", "m", "n", "o", "p", "q", "r", "s", "t", "u", "v", "w", "x", "y", "z">>

\* str.lower() of one character
LowerChar(c) ==
    IF \E i \in 1..Len(UpperAlphabet) : UpperAlphabet[i] = c
    THEN LowerAlphabet[CHOOSE i \in 1..Len(UpperAlphabet) : UpperAlphabet[i] = c]
    ELSE c

\* str.lower()
lower(s) == [i \in 1..Len(s) |-> LowerChar(s[i])]

\* Python's `sub in s` for strings
Contains(s, sub) ==
    \E i \in 0..(Len(s) - Len(sub)) : SubSeq(s, i + 1, i + Len(sub)) = sub

IsSpace(c) == c = " "

\* str.strip()
RECURSIVE lstrip(_)
lstrip(s) == IF s # <<>> /\ IsSpace(Head(s)) THEN lstrip(Tail(s)) ELSE s
RECURSIVE rstrip(_)
rstrip(s) ==
    IF s # <<>> /\ IsSpace(s[Len(s)]) THEN rstrip(SubSeq(s, 1, Len(s) - 1)) ELSE s
strip(s) == rstrip(lstrip(s))

\* The trigger substrings of _local_rule_based_answer
S_ambient == <<"a", "m", "b", "i", "e", "n", "t">>
S_it_load == <<"i", "t", " ", "l", "o", "a", "d">>
S_chilled_water_inlet == <<"c", "h", "i", "l", "l", "e", "d", " ", "w", "a", "t", "e", "r", " ", "i", "n", "l", "e", "t">>
S_chw == <<"c", "h", "w">>
S_anomaly == <<"a", "n", "o", "m", "a", "l", "y">>
S_maintenance == <<"m", "a", "i", "n", "t", "e", "n", "a", "n", "c", "e">>
S_priority == <<"p", "r", "i", "o", "r", "i", "t", "y">>
S_kpi == <<"k", "p", "i">>
S_threshold == <<"t", "h", "r", "e", "s", "h", "o", "l", "d">>
S_alert == <<"a", "l", "e", "r", "t">>

(***************************************************************************)
(* The queries, datasets and chillers the functions are applied to.        *)
(***************************************************************************)
MaxWords == 2
MaxRows == 2

\* What a user's question is made of
Fragments == {
    <<"W", "h", "y">>,
    <<"A", "m", "b", "i", "e", "n", "t">>,
    <<"I", "T">>,
    <<"l", "o", "a", "d">>,
    <<"c", "h", "i", "l", "l", "e", "d", " ", "w", "a", "t", "e", "r", " ", "i", "n", "l", "e", "t">>,
    <<"C", "H", "W">>,
    <<"a", "n", "o", "m", "a", "l", "y">>,
    <<"m", "a", "i", "n", "t", "e", "n", "a", "n", "c", "e">>,
    <<"p", "r", "i", "o", "r", "i", "t", "y">>,
    <<"K", "P", "I">>,
    <<"t", "h", "r", "e", "s", "h", "o", "l", "d">>,
    <<"a", "l", "e", "r", "t">> }

\* " ".join(ws)
RECURSIVE JoinWords(_)
JoinWords(ws) ==
    IF ws = <<>> THEN <<>>
    ELSE IF Len(ws) = 1 THEN ws[1]
    ELSE ws[1] \o <<" ">> \o JoinWords(Tail(ws))

SeqsUpTo(S, n) == UNION {[1..m -> S] : m \in 0..n}

\* A question that names every topic, last topic first
AllTopicsQuery == JoinWords(<<<<"a", "l", "e", "r", "t">>,
    <<"t", "h", "r", "e", "s", "h", "o", "l", "d">>,
    <<"K", "P", "I">>,
    <<"p", "r", "i", "o", "r", "i", "t", "y">>,
    <<"m", "a", "i", "n", "t", "e", "n", "a", "n", "c", "e">>,
    <<"a", "n", "o", "m", "a", "l", "y">>,
    <<"C", "H", "W">>,
    <<"c", "h", "i", "l", "l", "e", "d", " ", "w", "a", "t", "e", "r", " ", "i", "n", "l", "e", "t">>,
    <<"I", "T", " ", "l", "o", "a", "d">>,
    <<"A", "m", "b", "i", "e", "n", "t">>>>)

Queries == {JoinWords(ws) : ws \in SeqsUpTo(Fragments, MaxWords)} \cup {AllTopicsQuery}
CoreQueries == {<<"W", "h", "y">>, <<"A", "m", "b", "i", "e", "n", "t", " ", "a", "n", "o", "m", "a", "l", "y">>}

\* The columns simulate_timeseries gives a dataset, in its order
SimOrder == <<"time", "chiller", "ambient", "it_load", "chw_in",
              "power_predicted", "power_actual", "anomaly_score">>
\* Another order, with a column the agent does not know
OtherOrder == <<"anomaly_score", "site", "power_actual", "chiller", "ambient",
                "time", "power_predicted">>

\* The elements of s at the positions in S, in s's order
Pick(s, S) ==
    LET F[i \in 0..Len(s)] ==
            IF i = 0 THEN <<>>
            ELSE IF i \in S THEN Append(F[i - 1], s[i]) ELSE F[i - 1]
    IN  F[Len(s)]

ColumnLists ==
    {Pick(SimOrder, S) : S \in SUBSET (1..Len(SimOrder))}
        \cup {Pick(OtherOrder, S) : S \in SUBSET (1..Len(OtherOrder))}

\* Rows: a value for every column a dataset may have
R1 == [time |-> 0, chiller |-> "CH-1", ambient |-> 30, it_load |-> 50, chw_in |-> 7,
       power_predicted |-> 300, power_actual |-> 311, anomaly_score |-> 1, site |-> 1]
R2 == [time |-> 15, chiller |-> "CH-1", ambient |-> 31, it_load |-> 52, chw_in |-> 8,
       power_predicted |-> 320, power_actual |-> 300, anomaly_score |-> -2, site |-> 1]
R3 == [time |-> 15, chiller |-> "CH-2", ambient |-> 44, it_load |-> 90, chw_in |-> 13,
       power_predicted |-> 700, power_actual |-> 700, anomaly_score |-> 0, site |-> 2]
R4 == [time |-> 0, chiller |-> "CH-1", ambient |-> 28, it_load |-> 40, chw_in |-> 5,
       power_predicted |-> 232, power_actual |-> 240, anomaly_score |-> 0, site |-> 1]
RowPool == {R1, R2, R3, R4}

\* The rows of a dataset: up to MaxRows rows of the pool, in any order
RowLists == SeqsUpTo(RowPool, MaxRows)

CoreDatasets == {
    [columns |-> SimOrder, rows |-> <<R1, R3, R2>>],
    [columns |-> SimOrder, rows |-> <<>>],
    [columns |-> <<"time", "chiller", "ambient">>, rows |-> <<R2, R1>>],
    [columns |-> <<"chiller", "ambient">>, rows |-> <<R1>>],
    [columns |-> <<"time", "ambient">>, rows |-> <<R1>>] }

\* The arguments (query, df, chiller) a function is applied to: every query
\* with the core datasets, and the core queries with every dataset
ArgsInit ==
    \/ \E q \in Queries, d \in CoreDatasets, c \in ChillerIds :
          args = [query |-> q, df |-> d, chiller |-> c]
    \/ \E q \in CoreQueries, cols \in ColumnLists, rows \in RowLists, c \in ChillerIds :
          args = [query |-> q, df |-> [columns |-> cols, rows |-> rows], chiller |-> c]

(***************************************************************************)
(* ai_agent.py: what a call does, a return or a raise                      *)
(***************************************************************************)
Return(v) == [raised |-> FALSE, value |-> v, err |-> ""]
Raise(e) == [raised |-> TRUE, value |-> <<>>, err |-> e]

\* `col in df` and the KeyError of df[col]
HasCol(df, col) == \E i \in 1..Len(df.columns) : df.columns[i] = col

\* df[df["chiller"] == chiller]: the rows of the chiller, in the dataset's order
FilterChiller_all(rows, chiller) == rows
FilterChiller(rows, chiller) == SelectSeq(rows, LAMBDA r : r.chiller = chiller)
(***************************************************************************)
(* ai_agent.py: _local_rule_based_answer                                   *)
(***************************************************************************)
Abs(x) == IF x < 0 THEN -x ELSE x

\* The sum of a column over rows
RECURSIVE SumCol(_, _)
SumCol(rows, col) == IF rows = <<>> THEN 0 ELSE Head(rows)[col] + SumCol(Tail(rows), col)

\* The sum of power_actual - power_predicted over rows
RECURSIVE SumDiff(_)
SumDiff(rows) ==
    IF rows = <<>> THEN 0
    ELSE Head(rows).power_actual - Head(rows).power_predicted + SumDiff(Tail(rows))

\* num / den (num >= 0, den > 0) rounded to an integer, ties to even
RoundHalfEven(num, den) ==
    LET q == num \div den
        r == num % den
    IN  IF 2 * r < den THEN q
        ELSE IF 2 * r > den THEN q + 1
        ELSE IF q % 2 = 0 THEN q ELSE q + 1

\* f"{x:.1f}" (scale 10) and f"{x:.3f}" (scale 1000) of x = num / den: the sign
\* and the digits
Format(num, den, scale) ==
    [neg |-> num < 0, digits |-> RoundHalfEven(scale * Abs(num), den)]

\* The statistics, lines 65-72: <<>> stands for None, <<sum, count>> for a mean
ColMean(df, df_sel, col) ==
    IF HasCol(df, col) THEN <<SumCol(df_sel, col), Len(df_sel)>> ELSE <<>>
PowerDiff(df, df_sel) ==
    IF HasCol(df, "power_actual") /\ HasCol(df, "power_predicted")
    THEN <<SumDiff(df_sel), Len(df_sel)>> ELSE <<>>

Topic(id) == [kind |-> "topic", id |-> id]

\* The six ifs on q_lower, lines 79-108
TopicBullets_elif(q_lower) ==
    IF Contains(q_lower, S_ambient) THEN <<Topic("ambient")>>
    ELSE IF Contains(q_lower, S_it_load) THEN <<Topic("it_load")>>
    ELSE IF Contains(q_lower, S_chilled_water_inlet) \/ Contains(q_lower, S_chw)
         THEN <<Topic("chw_in")>>
    ELSE IF Contains(q_lower, S_anomaly) THEN <<Topic("anomaly")>>
    ELSE IF Contains(q_lower, S_maintenance) \/ Contains(q_lower, S_priority)
         THEN <<Topic("maintenance")>>
    ELSE IF Contains(q_lower, S_kpi) \/ Contains(q_lower, S_threshold)
            \/ Contains(q_lower, S_alert)
         THEN <<Topic("kpi")>>
    ELSE <<>>
TopicBullets(q_lower) ==
    (IF Contains(q_lower, S_ambient) THEN <<Topic("ambient")>> ELSE <<>>)
    \o (IF Contains(q_lower, S_it_load) THEN <<Topic("it_load")>> ELSE <<>>)
    \o (IF Contains(q_lower, S_chilled_water_inlet) \/ Contains(q_lower, S_chw)
        THEN <<Topic("chw_in")>> ELSE <<>>)
    \o (IF Contains(q_lower, S_anomaly) THEN <<Topic("anomaly")>> ELSE <<>>)
    \o (IF Contains(q_lower, S_maintenance) \/ Contains(q_lower, S_priority)
        THEN <<Topic("maintenance")>> ELSE <<>>)
    \o (IF Contains(q_lower, S_kpi) \/ Contains(q_lower, S_threshold)
           \/ Contains(q_lower, S_alert)
        THEN <<Topic("kpi")>> ELSE <<>>)

\* The data-driven comments, lines 111-135
DataBullets(chiller, ambient_mean, it_mean, chw_mean, anomaly_mean, power_diff) ==
    (IF ambient_mean # <<>>
     THEN <<[kind |-> "data", id |-> "ambient", who |-> chiller,
             val |-> Format(ambient_mean[1], ambient_mean[2], 10)]>>
     ELSE <<>>)
    \o (IF it_mean # <<>>
        THEN <<[kind |-> "data", id |-> "it_load",
                val |-> Format(it_mean[1], it_mean[2], 10)]>>
        ELSE <<>>)
    \o (IF chw_mean # <<>>
        THEN <<[kind |-> "data", id |-> "chw_in",
                val |-> Format(chw_mean[1], chw_mean[2], 10)]>>
        ELSE <<>>)
    \o (IF anomaly_mean # <<>>
        THEN <<[kind |-> "data", id |-> "anomaly_score", who |-> chiller,
                val |-> Format(anomaly_mean[1], anomaly_mean[2], 1000)]>>
        ELSE <<>>)
    \o (IF power_diff # <<>>
        THEN <<[kind |-> "data", id |-> "power_diff",
                val |-> Format(Abs(power_diff[1]), power_diff[2], 10),
                direction |-> IF power_diff[1] > 0 THEN "above" ELSE "below"]>>
        ELSE <<>>)

\* The recommended actions, lines 138-144
Actions == <<[kind |-> "action", id |-> "setpoints"],
             [kind |-> "action", id |-> "fouling"],
             [kind |-> "action", id |-> "sensors"],
             [kind |-> "action", id |-> "thresholds"],
             [kind |-> "action", id |-> "maintenance"]>>

\* The message of lines 59-62
NoDataMessage(chiller) == <<[kind |-> "no_data", who |-> chiller]>>

_local_rule_based_answer(query, df, chiller) ==
    IF ~HasCol(df, "chiller") THEN Raise("KeyError: 'chiller'")
    ELSE
    LET df_sel == FilterChiller(df.rows, chiller)
    IN  IF df_sel = <<>> THEN Return(NoDataMessage(chiller))
        ELSE
        LET ambient_mean == ColMean(df, df_sel, "ambient")
            it_mean == ColMean(df, df_sel, "it_load")
            chw_mean == ColMean(df, df_sel, "chw_in")
            anomaly_mean == ColMean(df, df_sel, "anomaly_score")
            power_diff == PowerDiff(df, df_sel)
            q_lower == lower(query)
            bullets == TopicBullets(q_lower)
                       \o DataBullets(chiller, ambient_mean, it_mean, chw_mean,
                                      anomaly_mean, power_diff)
        IN  Return(<<[kind |-> "header", who |-> chiller],
                     [kind |-> "question", query |-> query],
                     [kind |-> "section", id |-> "data"]>>
                   \o bullets
                   \o <<[kind |-> "blank"], [kind |-> "section", id |-> "actions"]>>
                   \o Actions)

\* The explainer applied to arguments
ExplainInit == ArgsInit /\ answer = <<>> /\ prompt = <<>>

Explain ==
    /\ answer = <<>>
    /\ answer' = <<_local_rule_based_answer(args.query, args.df, args.chiller)>>
    /\ UNCHANGED <<args, prompt>>
    /\ UNCHANGED <<simVars, agentVars>>

InitExplain == ExplainInit /\ SimIdle /\ AgentIdle
SpecExplain == InitExplain /\ [][Explain]_vars

----------------------------------------------------------------------------
\* The topics and the substrings that trigger each, in the order of the table
TopicTable == <<
    [id |-> "ambient", triggers |-> {S_ambient}],
    [id |-> "it_load", triggers |-> {S_it_load}],
    [id |-> "chw_in", triggers |-> {S_chilled_water_inlet, S_chw}],
    [id |-> "anomaly", triggers |-> {S_anomaly}],
    [id |-> "maintenance", triggers |-> {S_maintenance, S_priority}],
    [id |-> "kpi", triggers |-> {S_kpi, S_threshold, S_alert}] >>

Triggered(query, i) == \E tr \in TopicTable[i].triggers : Contains(lower(query), tr)

\* The statistics a dataset has columns for, in the order of the bullets
StatIds(df) ==
    SelectSeq(<<"ambient", "it_load", "chw_in", "anomaly_score", "power_diff">>,
              LAMBDA id : IF id = "power_diff"
                          THEN HasCol(df, "power_actual") /\ HasCol(df, "power_predicted")
                          ELSE HasCol(df, id))


\* The lines of one kind, in the order of the text
LinesOf(text, kind) == SelectSeq(text, LAMBDA ln : ln.kind = kind)
Positions(text, kind) == {i \in 1..Len(text) : text[i].kind = kind}

\* The explainer has been applied to a dataset that has rows of the chiller
Explained == answer # <<>> /\ HasCol(args.df, "chiller")
HasRows == \E i \in 1..Len(args.df.rows) : args.df.rows[i].chiller = args.chiller

\* C7: for a dataset with rows of the chiller, the topic sentences are those
\* of the table whose trigger occurs in the lower-cased query, each once, in
\* the table's order, all before the data-driven bullets; the data-driven
\* bullets (one per statistic the dataset has columns for) and the five
\* actions are there whatever the query.
C7_TopicRouting ==
    (Explained /\ HasRows) =>
        LET res == answer[1]
            text == res.value
            topics == LinesOf(text, "topic")
            wanted == Pick([i \in 1..Len(TopicTable) |-> TopicTable[i].id],
                           {i \in 1..Len(TopicTable) : Triggered(args.query, i)})
            stats == LinesOf(text, "data")
        IN  /\ ~res.raised
            /\ [i \in 1..Len(topics) |-> topics[i].id] = wanted
            /\ \A i \in Positions(text, "topic"), j \in Positions(text, "data") : i < j
            /\ [i \in 1..Len(stats) |-> stats[i].id] = StatIds(args.df)
            /\ LinesOf(text, "action") = Actions
            /\ \A i \in Positions(text, "data"), j \in Positions(text, "action") : i < j

\* a question in capitals naming two topics out of table order, all statistics
C7_Witness ==
    /\ Explained /\ HasRows
    /\ args.query = JoinWords(<<<<"C", "H", "W">>, <<"A", "m", "b", "i", "e", "n", "t">>>>)
    /\ args.df.columns = SimOrder
    /\ Len(LinesOf(answer[1].value, "topic")) = 2
    /\ Len(LinesOf(answer[1].value, "data")) = 5

\* no trigger in the question: no topic sentence, the bullets and the actions
C7_WitnessNoTopic ==
    /\ Explained /\ HasRows
    /\ LinesOf(answer[1].value, "topic") = <<>>
    /\ Len(LinesOf(answer[1].value, "data")) = 5
    /\ Len(LinesOf(answer[1].value, "action")) = 5

\* C8: for a dataset with no row of the chiller, the explainer returns, without
\* raising, the one no-data message naming the chiller: no topic sentence, no
\* data-driven bullet, no action, whatever the query.
C8_NoData ==
    (Explained /\ ~HasRows) =>
        /\ ~answer[1].raised
        /\ Len(answer[1].value) = 1
        /\ answer[1].value[1].kind = "no_data"
        /\ answer[1].value[1].who = args.chiller
        /\ \A kind \in {"topic", "data", "action"} : LinesOf(answer[1].value, kind) = <<>>

\* the dataset has rows, of another chiller, and the question names topics
C8_Witness ==
    /\ Explained /\ ~HasRows
    /\ args.df.rows # <<>>
    /\ args.query = AllTopicsQuery
    /\ answer[1].value = NoDataMessage(args.chiller)
(***************************************************************************)
(* ai_agent.py: _build_prompt                                              *)
(***************************************************************************)
TailCount == 24

\* The list of lines 186-194
RecognizedCols == <<"time", "ambient", "it_load", "chw_in",
                    "power_predicted", "power_actual", "anomaly_score">>

InList(x, list) == \E i \in 1..Len(list) : list[i] = x

\* .sort_values("time"): the rows in ascending time.  The default sort is not
\* stable, so rows of equal time may come in any order.
\* A row goes to one of the places its time allows: after the rows of lesser
\* time, not after the rows of its time or less; no two rows to one place.
sort_values(rows) ==
    LET n == Len(rows)
        lo(i) == Cardinality({j \in 1..n : rows[j].time < rows[i].time}) + 1
        hi(i) == Cardinality({j \in 1..n : rows[j].time <= rows[i].time})
        Places[i \in 0..n] ==
            IF i = 0 THEN {<<>>}
            ELSE UNION {{Append(f, q) : q \in {q \in lo(i)..hi(i) :
                                                  \A x \in 1..(i - 1) : f[x] # q}} :
                           f \in Places[i - 1]}
    IN  {[q \in 1..n |-> rows[CHOOSE i \in 1..n : f[i] = q]] : f \in Places[n]}

\* .tail(n): the last n rows
tail_head(rows, n) == IF Len(rows) <= n THEN rows ELSE SubSeq(rows, 1, n)
tail(rows, n) ==
    IF Len(rows) <= n THEN rows ELSE SubSeq(rows, Len(rows) - n + 1, Len(rows))

\* keep_cols, lines 182-195: the columns of the frame that are in the list
KeepCols_listorder(columns) == SelectSeq(RecognizedCols, LAMBDA c : InList(c, columns))
KeepCols(columns) == SelectSeq(columns, LAMBDA c : InList(c, RecognizedCols))

\* recent_view, line 196, as to_string(index=False) shows it: the column names
\* and, for each row, its values in the columns' order
RecentView(columns, recent) ==
    LET keep_cols == KeepCols(columns)
        shown == IF keep_cols # <<>> THEN keep_cols ELSE columns
    IN  [columns |-> shown,
         rows |-> [i \in 1..Len(recent) |-> [j \in 1..Len(shown) |-> recent[i][shown[j]]]]]

\* The f-string of lines 198-227
PromptText(query, chiller, view) ==
    <<[kind |-> "prompt", query |-> query, chiller |-> chiller, table |-> view]>>

\* What _build_prompt may do: one outcome for each order sort_values may give
_build_prompt(query, df, chiller) ==
    IF ~HasCol(df, "chiller") THEN {Raise("KeyError: 'chiller'")}
    ELSE IF ~HasCol(df, "time") THEN {Raise("KeyError: 'time'")}
    ELSE {Return(PromptText(query, chiller, RecentView(df.columns, tail(sorted, TailCount)))) :
             sorted \in sort_values(FilterChiller(df.rows, chiller))}

\* Datasets with more rows of a chiller than the prompt shows: n rows of CH-1
\* between two rows of CH-2 that are later than all of them.  The rows are not
\* in time order: latest first ("desc"), shuffled ("shuffle"), or latest
\* first with the two earliest rows at the same time ("tie").
MaxLong == 26

LongRow(i, tm, ch) ==
    [time |-> tm, chiller |-> ch, ambient |-> 28 + (i % 18), it_load |-> 40 + i,
     chw_in |-> 5 + (i % 10), power_predicted |-> 300 + i, power_actual |-> 300 + 2 * i,
     anomaly_score |-> i % 3, site |-> 1]

LongTime(pattern, i, n) ==
    IF pattern = "desc" THEN (n - i) * StepMinutes
    ELSE IF pattern = "shuffle" THEN ((i * 17) % n) * StepMinutes
    ELSE Max(n - i, 1) * StepMinutes

LongRows(pattern, n) ==
    <<LongRow(0, (n + 2) * StepMinutes, "CH-2")>>
    \o [i \in 1..n |-> LongRow(i, LongTime(pattern, i, n), "CH-1")]
    \o <<LongRow(n + 1, (n + 1) * StepMinutes, "CH-2")>>

LongColumnLists == {SimOrder, OtherOrder, <<"time", "chiller", "ambient">>}

LongArgsInit ==
    \E q \in CoreQueries, cols \in LongColumnLists, c \in ChillerIds,
       pattern \in {"desc", "shuffle", "tie"}, n \in (TailCount - 2)..MaxLong :
          args = [query |-> q, df |-> [columns |-> cols, rows |-> LongRows(pattern, n)],
                  chiller |-> c]

\* The prompt builder applied to arguments
PromptInit == (ArgsInit \/ LongArgsInit) /\ answer = <<>> /\ prompt = <<>>

BuildPrompt ==
    /\ prompt = <<>>
    /\ \E outcome \in _build_prompt(args.query, args.df, args.chiller) :
          prompt' = <<outcome>>
    /\ UNCHANGED <<args, answer>>
    /\ UNCHANGED <<simVars, agentVars>>

InitPrompt == PromptInit /\ SimIdle /\ AgentIdle
SpecPrompt == InitPrompt /\ [][BuildPrompt]_vars

----------------------------------------------------------------------------
\* The position of a column in a list of columns
ColPos(columns, c) == CHOOSE i \in 1..Len(columns) : columns[i] = c

\* The prompt builder has returned a prompt
Built == prompt # <<>> /\ ~prompt[1].raised

\* C9: the table of a prompt has exactly the columns of the dataset that are
\* among time, ambient, it_load, chw_in, power_predicted, power_actual and
\* anomaly_score, in the dataset's order, each row with one value per column;
\* a column such as chiller is never in it.
C9_TableColumns ==
    Built =>
        LET table == prompt[1].value[1].table
            shown == table.columns
        IN  /\ \A i \in 1..Len(shown) :
                  InList(shown[i], RecognizedCols) /\ HasCol(args.df, shown[i])
            /\ \A i \in 1..Len(RecognizedCols) :
                  HasCol(args.df, RecognizedCols[i]) => InList(RecognizedCols[i], shown)
            /\ \A i, j \in 1..Len(shown) :
                  i < j => ColPos(args.df.columns, shown[i]) < ColPos(args.df.columns, shown[j])
            /\ ~InList("chiller", shown) /\ ~InList("site", shown)
            /\ \A i \in 1..Len(table.rows) : Len(table.rows[i]) = Len(shown)

\* the dataset with only time, chiller and ambient; and one in another order
C9_Witness ==
    /\ Built
    /\ args.df.columns = <<"time", "chiller", "ambient">>
    /\ prompt[1].value[1].table.columns = <<"time", "ambient">>
    /\ prompt[1].value[1].table.rows # <<>>
\* The rows of the chiller in the dataset the prompt was built from
Mine == FilterChiller(args.df.rows, args.chiller)

\* A row as the table shows it
Shown(r, columns) == [j \in 1..Len(columns) |-> r[columns[j]]]

\* How many of the rows satisfy a test
Count(rows, Test(_)) == Cardinality({i \in 1..Len(rows) : Test(rows[i])})

\* C11: the table of a prompt has min(24, n) rows, n being the number of rows
\* of the chiller; each is a row of the chiller, shown no more often than the
\* dataset has it; their times ascend, the latest last; and they are the
\* latest: every row of the chiller that is later than a row left out is
\* shown.
C11_LatestRows ==
    Built =>
        LET table == prompt[1].value[1].table
            tcol == ColPos(table.columns, "time")
            n == Len(Mine)
            m == IF n < TailCount THEN n ELSE TailCount
            times == [i \in 1..Len(table.rows) |-> table.rows[i][tcol]]
        IN  /\ Len(table.rows) = m
            /\ \A i \in 1..m :
                  /\ \E j \in 1..n : table.rows[i] = Shown(Mine[j], table.columns)
                  /\ Count(table.rows, LAMBDA x : x = table.rows[i])
                        <= Count(Mine, LAMBDA r : Shown(r, table.columns) = table.rows[i])
            /\ \A i \in 1..(m - 1) : times[i] <= times[i + 1]
            /\ \A j \in 1..n :
                  Count(times, LAMBDA x : x > Mine[j].time)
                    = LET later == Count(Mine, LAMBDA r : r.time > Mine[j].time)
                      IN  IF later < m THEN later ELSE m
            /\ m > 0 => times[m] = Mine[CHOOSE j \in 1..n :
                                          \A i \in 1..n : Mine[i].time <= Mine[j].time].time

\* MaxLong shuffled rows of the chiller among rows of another: the latest shown
C11_Witness ==
    /\ Built
    /\ Len(Mine) = MaxLong /\ Len(args.df.rows) = MaxLong + 2
    /\ Mine[1].time > Mine[2].time /\ Mine[2].time < Mine[3].time
    /\ Len(prompt[1].value[1].table.rows) = TailCount
    /\ prompt[1].value[1].table.columns # <<>>

(***************************************************************************)
(* ai_agent.py: the import of the module, lines 14-43                      *)
(***************************************************************************)
MaxCalls == 2

\* The secret store: unavailable (reading it raises), or available with no
\* GOOGLE_API_KEY entry (None) or with one
SecretStores == {[available |-> FALSE, key |-> None],
                 [available |-> TRUE, key |-> None],
                 [available |-> TRUE, key |-> ""],
                 [available |-> TRUE, key |-> "key-from-secrets"]}

\* os.environ's GOOGLE_API_KEY: unset (None) or set
EnvValues == {None, "", "key-from-env"}

\* bool(v) of a key
Truthy(v) == v # None /\ v # ""

\* Lines 25-29: st.secrets.get("GOOGLE_API_KEY", None), and os.getenv only in
\* the except branch
ResolveKey(store, environ) == IF store.available THEN store.key ELSE environ

Info(msg, detail) == [kind |-> "info", msg |-> msg, detail |-> detail]

\* Lines 34-43: the notice shown at import
StartupNotices(available, key) ==
    IF available /\ Truthy(key) THEN <<>>
    ELSE IF available THEN <<Info("GOOGLE_API_KEY not configured", "")>>
    ELSE <<Info("google-generativeai not installed", "")>>

AgentInit ==
    /\ pc = "import"
    /\ sdk_installed \in BOOLEAN
    /\ secrets \in SecretStores
    /\ env \in EnvValues
    /\ GEMINI_AVAILABLE = FALSE
    /\ API_KEY = None
    /\ configured = None
    /\ notices = <<>>
    /\ nCalls = 0
    /\ remoteCalls = 0
    /\ call = <<>>

\* import ai_agent
Import ==
    /\ pc = "import"
    /\ GEMINI_AVAILABLE' = sdk_installed
    /\ API_KEY' = ResolveKey(secrets, env)
    /\ configured' = IF sdk_installed /\ Truthy(API_KEY') THEN API_KEY' ELSE None
    /\ notices' = StartupNotices(sdk_installed, API_KEY')
    /\ pc' = "ready"
    /\ UNCHANGED <<sdk_installed, secrets, env, nCalls, remoteCalls, call>>
    /\ UNCHANGED <<simVars, fnVars>>

\* The environment is changed while the process runs
EnvChange ==
    /\ pc = "ready"
    /\ \E v \in EnvValues \ {env} : env' = v
    /\ UNCHANGED <<pc, sdk_installed, secrets, GEMINI_AVAILABLE, API_KEY, configured,
                   notices, nCalls, remoteCalls, call>>
    /\ UNCHANGED <<simVars, fnVars>>

(***************************************************************************)
(* ai_agent.py: _call_gemini and ai_answer                                 *)
(***************************************************************************)
\* What model.generate_content(prompt) may do: raise, or give a response whose
\* text attribute is absent, None or a string
Response(has_text, text_is_none, text) ==
    [kind |-> "response", err |-> "", has_text |-> has_text,
     text_is_none |-> text_is_none, text |-> text]
RemoteRaise(e) ==
    [kind |-> "raise", err |-> e, has_text |-> FALSE, text_is_none |-> FALSE, text |-> <<>>]

RemoteBehaviours == {
    RemoteRaise("429 quota exceeded"),
    RemoteRaise("403 permission denied"),
    Response(FALSE, FALSE, <<>>),
    Response(TRUE, TRUE, <<>>),
    Response(TRUE, FALSE, <<>>),
    Response(TRUE, FALSE, <<" ", " ">>),
    Response(TRUE, FALSE, <<" ", "O", "k", ".", " ">>) }

\* Lines 171-173
ExtractText_strict(response) ==
    IF response.has_text /\ ~response.text_is_none
    THEN Return(<<[kind |-> "remote_text", chars |-> strip(response.text)]>>)
    ELSE Raise("AttributeError: text")
ExtractText(response) ==
    IF response.has_text /\ ~response.text_is_none /\ response.text # <<>>
    THEN Return(<<[kind |-> "remote_text", chars |-> strip(response.text)]>>)
    ELSE Return(<<[kind |-> "str", of |-> response]>>)

\* Whether generate_content is reached: the guard of line 164
RemoteAllowed == GEMINI_AVAILABLE /\ Truthy(API_KEY)

\* _call_gemini: what it does, and whether it called generate_content
_call_gemini(prompt_text, remote) ==
    IF ~RemoteAllowed
    THEN [outcome |-> Raise("Gemini not available or API key missing."), invoked |-> FALSE]
    ELSE IF remote.kind = "raise"
    THEN [outcome |-> Raise(remote.err), invoked |-> TRUE]
    ELSE [outcome |-> ExtractText(remote), invoked |-> TRUE]

\* Lines 246-250: the notice, then the rule-based answer
Fallback_silent(query, df, chiller, e) ==
    [diag |-> <<>>, outcome |-> _local_rule_based_answer(query, df, chiller)]
Fallback(query, df, chiller, e) ==
    [diag |-> <<Info("Using offline explanation (Gemini unavailable)", e)>>,
     outcome |-> _local_rule_based_answer(query, df, chiller)]

\* What ai_answer may do for one behaviour of the remote model
ai_answer(query, df, chiller, remote) ==
    {LET base == [query |-> query, df |-> df, chiller |-> chiller]
     IN  IF p.raised
         THEN [args |-> base, raised |-> TRUE, value |-> <<>>, err |-> p.err,
               attempted |-> FALSE, attempt_failed |-> FALSE, attempt_err |-> "",
               invoked |-> FALSE, remote |-> <<>>, fell_back |-> FALSE, diag |-> <<>>]
         ELSE
         LET g == _call_gemini(p.value, remote)
             seen == IF g.invoked THEN <<remote>> ELSE <<>>
         IN  IF ~g.outcome.raised
             THEN [args |-> base, raised |-> FALSE, value |-> g.outcome.value, err |-> "",
                   attempted |-> TRUE, attempt_failed |-> FALSE, attempt_err |-> "",
                   invoked |-> g.invoked, remote |-> seen, fell_back |-> FALSE,
                   diag |-> <<>>]
             ELSE
             LET f == Fallback(query, df, chiller, g.outcome.err)
             IN  [args |-> base, raised |-> f.outcome.raised, value |-> f.outcome.value,
                  err |-> f.outcome.err,
                  attempted |-> TRUE, attempt_failed |-> TRUE,
                  attempt_err |-> g.outcome.err,
                  invoked |-> g.invoked, remote |-> seen, fell_back |-> TRUE,
                  diag |-> f.diag]
     : p \in _build_prompt(query, df, chiller)}

\* The arguments the dashboard calls ai_answer with
CallArgs ==
    {[query |-> q, df |-> d, chiller |-> c] :
        q \in CoreQueries, d \in CoreDatasets, c \in ChillerIds}

\* One call of ai_answer
AiAnswer ==
    /\ pc = "ready"
    /\ nCalls < MaxCalls
    /\ \E a \in CallArgs, remote \in RemoteBehaviours :
          \E done \in ai_answer(a.query, a.df, a.chiller, remote) :
              /\ call' = <<done>>
              /\ notices' = notices \o done.diag
              /\ remoteCalls' = remoteCalls + (IF done.invoked THEN 1 ELSE 0)
    /\ nCalls' = nCalls + 1
    /\ UNCHANGED <<pc, sdk_installed, secrets, env, GEMINI_AVAILABLE, API_KEY, configured>>
    /\ UNCHANGED <<simVars, fnVars>>

Init == AgentInit /\ SimIdle /\ FnIdle
Next == Import \/ EnvChange \/ AiAnswer
Spec == Init /\ [][Next]_vars

----------------------------------------------------------------------------
\* ai_answer has been called
Called == call # <<>>

\* The last call was given a dataset that has a chiller column
CalledWithChillers == Called /\ HasCol(call[1].args.df, "chiller")

\* C1: no call of ai_answer raises; every call returns a text.  Stated for the
\* datasets that have a chiller column, whatever other columns they lack.
C1_NeverRaises ==
    CalledWithChillers => ~call[1].raised /\ call[1].value # <<>>

\* C2: when the remote attempt of a call fails, the call shows a notice with
\* the error's description and returns the text _local_rule_based_answer
\* gives for the same query, dataset and chiller.
C2_FallbackOnFailure ==
    (Called /\ call[1].attempt_failed) =>
        LET c == call[1]
            local == _local_rule_based_answer(c.args.query, c.args.df, c.args.chiller)
        IN  /\ ~c.raised
            /\ ~local.raised
            /\ c.value = local.value
            /\ Len(c.diag) = 1
            /\ c.diag[1].kind = "info"
            /\ c.diag[1].detail = c.attempt_err
            /\ notices # <<>> /\ notices[Len(notices)] = c.diag[1]

\* the remote call itself raised, with a key configured
C2_Witness ==
    /\ Called /\ call[1].attempt_failed /\ call[1].invoked
    /\ call[1].attempt_err = "429 quota exceeded"
    /\ Len(call[1].value) > 1
    /\ nCalls = 2

\* C3: with no credential resolved, or no SDK, no call invokes the remote model
\* and every call takes the fallback path.  Stated for the datasets that have
\* a chiller column.
C3_KeylessAlwaysFallsBack ==
    (pc = "ready" /\ ~(GEMINI_AVAILABLE /\ Truthy(API_KEY))) =>
        /\ remoteCalls = 0
        /\ CalledWithChillers => (~call[1].invoked /\ call[1].fell_back)

\* The parts of C3 that hold: the configuration does not change after the
\* import, and without it the remote model is never invoked
C3_ConfigReadOnly ==
    [][pc = "ready" =>
          /\ GEMINI_AVAILABLE' = GEMINI_AVAILABLE
          /\ API_KEY' = API_KEY
          /\ configured' = configured]_vars
C3_NoRemoteWhenKeyless ==
    (pc = "ready" /\ ~(GEMINI_AVAILABLE /\ Truthy(API_KEY))) =>
        /\ remoteCalls = 0
        /\ Called => (~call[1].invoked /\ (call[1].attempted => call[1].fell_back))

\* C4: the import resolves the key from the secret store first and, when the
\* store gives none (unavailable, or no GOOGLE_API_KEY entry), from the
\* environment: with the variable set (to a key) and no key in the store,
\* API_KEY is the environment's value.
C4_LayeredLookup ==
    [][(pc = "import" /\ pc' = "ready" /\ Truthy(env)
            /\ (~secrets.available \/ secrets.key = None))
          => API_KEY' = env]_vars

\* C10: when generate_content returns a response with no usable text (no text
\* attribute, None or empty), the call returns str(response): no notice, no
\* fallback.
C10_NoTextIsNotFailure ==
    (/\ Called /\ call[1].invoked /\ call[1].remote[1].kind = "response"
     /\ (\/ ~call[1].remote[1].has_text
         \/ call[1].remote[1].text_is_none
         \/ call[1].remote[1].text = <<>>)) =>
        /\ ~call[1].raised
        /\ call[1].value = <<[kind |-> "str", of |-> call[1].remote[1]]>>
        /\ ~call[1].fell_back
        /\ call[1].diag = <<>>
        /\ ~call[1].attempt_failed

\* a response whose text is None, and no notice shown since the import
C10_Witness ==
    /\ Called /\ call[1].invoked
    /\ call[1].remote[1] = Response(TRUE, TRUE, <<>>)
    /\ call[1].value = <<[kind |-> "str", of |-> Response(TRUE, TRUE, <<>>)]>>
    /\ notices = <<>>
====
